---- MODULE Spec2Model ----
(***************************************************************************)
(* Routing engine (abadeanlou/routing-engine-osmnx): the shared graph      *)
(* cache of GraphManager, the request handler of routes_routing.py and the *)
(* route construction of RoutingService, as a state machine.               *)
(*                                                                         *)
(* Numbers.  Coordinates are integers in units of 1e-4 degree, distances   *)
(* and weights are integer metres, durations are integer centiseconds      *)
(* (metres * 3600 / (40 * 10), an exact division); the radius of a fetch   *)
(* is rounded down to whole metres.  haversine_distance_m is the           *)
(* small-angle planar form of the haversine formula at that resolution.    *)
(*                                                                         *)
(* Optional values (Python None) are records [has, val].                   *)
(***************************************************************************)
EXTENDS Integers, Sequences, FiniteSets, TLC

\* ------------------------------------------------------------------ bounds
NumRequests == 2

Requests == 1..NumRequests

\* ------------------------------------------------------- program constants
MAX_GRAPH_RADIUS_M == 15000
DEFAULT_SPEED_KMH == 40
MetresPerUnit == 11

\* ------------------------------------------------------------ value types
None == [has |-> FALSE, val |-> 0]
Some(v) == [has |-> TRUE, val |-> v]

Coordinate(lat, lon) == [lat |-> lat, lon |-> lon]

\* The length attribute of an edge as the map source delivers it: a number,
\* a string (a sequence of characters), absent (None), or a value of another
\* type (a list, for instance).
LenNum(n) == [k |-> "num", v |-> n, s |-> <<>>]
LenStr(chars) == [k |-> "str", v |-> 0, s |-> chars]
LenNone == [k |-> "none", v |-> 0, s |-> <<>>]
LenOther == [k |-> "other", v |-> 0, s |-> <<>>]

Node(id, x, y) == [id |-> id, x |-> x, y |-> y]

\* An edge of the MultiDiGraph; geometry is <<>> (no geometry attribute) or
\* the (x, y) points of its LineString; weight is None until it is set.
Edge(u, v, length, weight, geometry) ==
  [u |-> u, v |-> v, length |-> length, weight |-> weight, geometry |-> geometry]

XY(x, y) == [x |-> x, y |-> y]

\* A graph: nodes and edges in insertion order; gen identifies the instance
\* (0: none yet).
MkGraph(name, nodes, edges) ==
  [name |-> name, gen |-> 0, nodes |-> nodes, edges |-> edges]

NoGraph == MkGraph("None", <<>>, <<>>)
IsNone(g) == g.name = "None"

NoBbox == [present |-> FALSE, north |-> 0, south |-> 0, east |-> 0, west |-> 0, gen |-> 0]
Bbox(n, s, e, w, gen) ==
  [present |-> TRUE, north |-> n, south |-> s, east |-> e, west |-> w, gen |-> gen]

\* ---------------------------------------------------------------- helpers
Min(a, b) == IF a <= b THEN a ELSE b

SetMin(S) == CHOOSE m \in S : \A n \in S : m <= n
SetMax(S) == CHOOSE m \in S : \A n \in S : m >= n

RECURSIVE SqrtSearch(_, _, _)
SqrtSearch(n, lo, hi) ==
  IF lo >= hi THEN lo
  ELSE LET mid == (lo + hi + 1) \div 2
       IN IF mid * mid <= n THEN SqrtSearch(n, mid, hi) ELSE SqrtSearch(n, lo, mid - 1)

ISqrt(n) == SqrtSearch(n, 0, Min(n, 30000))

RECURSIVE SeqSum(_)
SeqSum(s) == IF s = <<>> THEN 0 ELSE Head(s) + SeqSum(Tail(s))

\* -------------------------------------------------- GraphManager: geometry
\* _haversine_distance_m: great-circle distance in metres.
haversine_distance_m(a, b) ==
  LET dlat == b.lat - a.lat
      dlon == b.lon - a.lon
  IN MetresPerUnit * ISqrt(dlat * dlat + dlon * dlon)

\* Variant of _bbox_contains_points with the northern and eastern bounds
\* exclusive.
bbox_contains_points_strict(box, origin, destination) ==
  IF ~box.present THEN FALSE
  ELSE LET inside(c) == box.south <= c.lat /\ c.lat < box.north
                        /\ box.west <= c.lon /\ c.lon < box.east
       IN inside(origin) /\ inside(destination)

\* _bbox_contains_points: the loop over (origin, destination) with its early
\* returns.
bbox_contains_points(box, origin, destination) ==
  IF ~box.present THEN FALSE
  ELSE LET inside(c) == box.south <= c.lat /\ c.lat <= box.north
                        /\ box.west <= c.lon /\ c.lon <= box.east
       IN IF ~inside(origin) THEN FALSE
          ELSE IF ~inside(destination) THEN FALSE
          ELSE TRUE

\* --------------------------------------------- GraphManager: dummy graph
\* _build_dummy_graph_for_tests: three nodes near Milan, the chain
\* 1 -> 2 -> 3 and the direct, slightly longer edge 1 -> 3; add_edge sets
\* both length and weight.
DummyNodes ==
  << Node(1, Some(91900), Some(454642)),
     Node(2, Some(92200), Some(454720)),
     Node(3, Some(92500), Some(454800)) >>

add_edge(u, v, length_m) == Edge(u, v, LenNum(length_m), Some(length_m), <<>>)

build_dummy_graph_for_tests ==
  MkGraph("dummy", DummyNodes,
          << add_edge(1, 2, 1000), add_edge(2, 3, 1500), add_edge(1, 3, 2600) >>)

\* ------------------------------------------------- the map-data source
\* What ox.graph_from_point can deliver: road networks around Milan as the
\* external source returns them (length as delivered, no weight attribute).
RawEdge(u, v, length, geometry) == Edge(u, v, length, None, geometry)

Curve12 == << XY(91900, 454642), XY(92000, 454700), XY(92200, 454720) >>
Curve23 == << XY(92200, 454720), XY(92400, 454750), XY(92500, 454800) >>
Curve13 == << XY(91900, 454642), XY(92300, 454650), XY(92400, 454790), XY(92500, 454800) >>

\* the fixture network with lengths only
GChain ==
  MkGraph("chain", DummyNodes,
          << RawEdge(1, 2, LenNum(1000), <<>>),
             RawEdge(2, 3, LenNum(1500), Curve23),
             RawEdge(1, 3, LenNum(2600), <<>>) >>)

\* two parallel edges 1 -> 2: the first inserted is the longer one
GParallel ==
  MkGraph("parallel", DummyNodes,
          << RawEdge(1, 2, LenNum(500), Curve12),
             RawEdge(1, 2, LenNum(100), <<>>),
             RawEdge(2, 3, LenNum(1500), <<>>),
             RawEdge(1, 3, LenNum(1700), <<>>) >>)

\* the direct edge 1 -> 3 has a length that float() rejects
GUnweighted ==
  MkGraph("unweighted", DummyNodes,
          << RawEdge(1, 2, LenNum(1000), <<>>),
             RawEdge(2, 3, LenNum(1500), <<>>),
             RawEdge(1, 3, LenOther, <<>>) >>)

\* node 3 has no coordinates and the edge into it has no length
GNoCoord ==
  MkGraph("nocoord",
          << Node(1, Some(91900), Some(454642)),
             Node(2, Some(92200), Some(454720)),
             Node(3, None, None) >>,
          << RawEdge(1, 2, LenNum(1000), <<>>),
             RawEdge(2, 3, LenNone, <<>>) >>)

\* node 3 cannot be reached from node 1
GSplit ==
  MkGraph("split", DummyNodes,
          << RawEdge(1, 2, LenNum(1000), <<>>),
             RawEdge(3, 2, LenNum(1500), <<>>) >>)

\* lengths as strings, numeric and not, and an absent length
GStrLen ==
  MkGraph("strlen", DummyNodes,
          << RawEdge(1, 2, LenStr(<<"1", "0", "0", "0">>), <<>>),
             RawEdge(2, 3, LenStr(<<"a", "b">>), <<>>),
             RawEdge(1, 3, LenNone, Curve13) >>)

\* edges of length zero
GZero ==
  MkGraph("zero", DummyNodes,
          << RawEdge(1, 2, LenNum(0), <<>>),
             RawEdge(2, 3, LenStr(<<"0">>), <<>>) >>)

\* one winding road of 31 km between the two nodes
GLong ==
  MkGraph("long",
          << Node(1, Some(91900), Some(454642)),
             Node(3, Some(92500), Some(454800)) >>,
          << RawEdge(1, 3, LenNum(31000), Curve13) >>)

\* the mapped roads end at node 2, short of the third request point
GShort ==
  MkGraph("short",
          << Node(1, Some(91900), Some(454642)),
             Node(2, Some(92200), Some(454720)) >>,
          << RawEdge(1, 2, LenNum(1000), <<>>),
             RawEdge(2, 1, LenNum(1000), <<>>) >>)

\* a single node without coordinates
GBlank == MkGraph("blank", << Node(1, None, None) >>, <<>>)

MapGraphs ==
  { GChain, GParallel, GUnweighted, GNoCoord, GSplit, GStrLen, GZero, GLong,
    GShort, GBlank }

\* The points a request can name: two of them on the fixture's nodes, one
\* about 44 km to the north.
ReqPoints ==
  { Coordinate(454642, 91900), Coordinate(454800, 92500), Coordinate(458642, 91900) }

\* ------------------------------------ GraphManager: weight normalisation
Digits == [c \in {"0", "1", "2", "3", "4", "5", "6", "7", "8", "9"} |->
             CASE c = "0" -> 0 [] c = "1" -> 1 [] c = "2" -> 2 [] c = "3" -> 3
               [] c = "4" -> 4 [] c = "5" -> 5 [] c = "6" -> 6 [] c = "7" -> 7
               [] c = "8" -> 8 [] c = "9" -> 9]

RECURSIVE DigitsValue(_, _)
DigitsValue(chars, acc) ==
  IF chars = <<>> THEN acc
  ELSE DigitsValue(Tail(chars), 10 * acc + Digits[Head(chars)])

\* float(s) of a string: its value, or None for the ValueError
float_of_str(chars) ==
  IF chars # <<>> /\ \A i \in 1..Len(chars) : chars[i] \in DOMAIN Digits
  THEN Some(DigitsValue(chars, 0))
  ELSE None

NodeById(G, id) == LET i == CHOOSE i \in 1..Len(G.nodes) : G.nodes[i].id = id IN G.nodes[i]
NodeIds(G) == { G.nodes[i].id : i \in 1..Len(G.nodes) }

\* The body of the loop of _ensure_numeric_weights for one edge.
normalise_edge(G, e) ==
  LET l0 == e.length
      \* isinstance(length, str): float(length), None on ValueError
      l1 == IF l0.k = "str"
            THEN (IF float_of_str(l0.s).has THEN LenNum(float_of_str(l0.s).val) ELSE LenNone)
            ELSE l0
      nu == NodeById(G, e.u)
      nv == NodeById(G, e.v)
      nocoords == ~nu.y.has \/ ~nu.x.has \/ ~nv.y.has \/ ~nv.x.has
  IN IF l1.k = "none"
     THEN IF nocoords THEN e   \* num_missing += 1; continue
          ELSE [e EXCEPT !.weight =
                  Some(haversine_distance_m(Coordinate(nu.y.val, nu.x.val),
                                            Coordinate(nv.y.val, nv.x.val)))]
     ELSE IF l1.k = "num" THEN [e EXCEPT !.weight = Some(l1.v)]
     ELSE e                    \* float(length) raises TypeError: continue

\* _ensure_numeric_weights
ensure_numeric_weights(G) ==
  [G EXCEPT !.edges = [i \in 1..Len(G.edges) |-> normalise_edge(G, G.edges[i])]]

\* ------------------------------------------- GraphManager: bounding box
\* lines 172-181 of _build_graph_for_points: the box of the node
\* coordinates, or the loose box around the midpoint.
derive_bbox(G, origin, destination, gen) ==
  LET xs == { G.nodes[i].x.val : i \in { j \in 1..Len(G.nodes) : G.nodes[j].x.has } }
      ys == { G.nodes[i].y.val : i \in { j \in 1..Len(G.nodes) : G.nodes[j].y.has } }
      center_lat == (origin.lat + destination.lat) \div 2
      center_lon == (origin.lon + destination.lon) \div 2
  IN IF xs # {} /\ ys # {}
     THEN Bbox(SetMax(ys), SetMin(ys), SetMax(xs), SetMin(xs), gen)
     ELSE Bbox(center_lat + 10000, center_lat - 10000,
               center_lon + 10000, center_lon - 10000, gen)

\* The bbox set with the dummy graph (line 124).
dummy_bbox(gen) == Bbox(900000, -900000, 1800000, -1800000, gen)

\* ---------------------------------------- GraphManager: nearest node
RECURSIVE nearest_scan(_, _, _, _, _)
nearest_scan(nodes, coord, i, best, nearest) ==
  IF i > Len(nodes) THEN nearest
  ELSE LET n == nodes[i]
       IN IF ~n.x.has \/ ~n.y.has
          THEN nearest_scan(nodes, coord, i + 1, best, nearest)
          ELSE LET dx == n.x.val - coord.lon
                   dy == n.y.val - coord.lat
                   d2 == dx * dx + dy * dy
               IN IF ~best.has \/ d2 < best.val
                  THEN nearest_scan(nodes, coord, i + 1, Some(d2), Some(n.id))
                  ELSE nearest_scan(nodes, coord, i + 1, best, nearest)

\* find_nearest_node on a graph that is there.  Under pytest the scan of
\* lines 54-71 (nodes without coordinates skipped, the first minimum wins);
\* otherwise ox.distance.nearest_nodes, which rejects node tables with
\* missing coordinates and returns the first closest node.
find_nearest_node(G, coord, pytest) ==
  LET found == nearest_scan(G.nodes, coord, 1, None, None)
      complete == \A i \in 1..Len(G.nodes) : G.nodes[i].x.has /\ G.nodes[i].y.has
  IN IF pytest
     THEN IF found.has THEN [status |-> "ok", node |-> found.val]
          ELSE [status |-> "RuntimeError", node |-> 0]
     ELSE IF complete /\ found.has THEN [status |-> "ok", node |-> found.val]
          ELSE [status |-> "ValueError", node |-> 0]

\* ------------------------------------------------ MultiDiGraph accessors
\* G.get_edge_data(u, v): the edges from u to v in key (insertion) order.
get_edge_data(G, u, v) == SelectSeq(G.edges, LAMBDA e : e.u = u /\ e.v = v)

RECURSIVE Distinct(_, _)
Distinct(s, acc) ==
  IF s = <<>> THEN acc
  ELSE IF \E i \in 1..Len(acc) : acc[i] = Head(s)
       THEN Distinct(Tail(s), acc)
       ELSE Distinct(Tail(s), Append(acc, Head(s)))

\* G._succ[v] and G._pred[v]: the neighbours in the order their first edge
\* was added.
Successors(G, v) ==
  LET es == SelectSeq(G.edges, LAMBDA e : e.u = v)
  IN Distinct([i \in 1..Len(es) |-> es[i].v], <<>>)

Predecessors(G, v) ==
  LET es == SelectSeq(G.edges, LAMBDA e : e.v = v)
  IN Distinct([i \in 1..Len(es) |-> es[i].u], <<>>)

\* Variant of the weight function for an attribute name no edge carries:
\* every edge counts 1 (the search minimises hops).
attr_get_weight_unit(e) == 1

\* ----------------------------------- nx.shortest_path(G, s, t, "weight")
\* The weight function networkx builds for a multigraph and the attribute
\* name "weight": min(attr.get("weight", 1) for attr in d.values()), the
\* least weight of the parallel edges, an edge without the attribute
\* counting 1.
attr_get_weight(e) == IF e.weight.has THEN e.weight.val ELSE 1

weight_function(G, u, v) ==
  LET d == get_edge_data(G, u, v)
  IN SetMin({ attr_get_weight(d[i]) : i \in 1..Len(d) })

EmptyDict == [n \in {} |-> 0]
DictSet(d, k, val) == (k :> val) @@ d

\* heappop: the least (distance, counter, node) of a fringe
HeapMin(fringe) ==
  CHOOSE t \in fringe : \A o \in fringe :
    t[1] < o[1] \/ (t[1] = o[1] /\ t[2] <= o[2])

\* The loop over the neighbours w of the node v just settled in direction
\* dir (1: forward, 2: backward) of bidirectional_dijkstra.
RECURSIVE relax_neighbours(_, _, _, _, _)
relax_neighbours(G, s, v, ws, dir) ==
  IF ws = <<>> \/ s.status # "run" THEN s
  ELSE
    LET w == Head(ws)
        cost == IF dir = 1 THEN weight_function(G, v, w) ELSE weight_function(G, w, v)
        vwLength == s.dists[dir][v] + cost
    IN IF w \in DOMAIN s.dists[dir]
       THEN IF vwLength < s.dists[dir][w]
            THEN [s EXCEPT !.status = "ValueError"]
            ELSE relax_neighbours(G, s, v, Tail(ws), dir)
       ELSE IF w \notin DOMAIN s.seen[dir] \/ vwLength < s.seen[dir][w]
       THEN
         LET seen2 == [s.seen EXCEPT ![dir] = DictSet(@, w, vwLength)]
             path2 == [s.paths EXCEPT ![dir] = DictSet(@, w, Append(s.paths[dir][v], w))]
             both == w \in DOMAIN seen2[1] /\ w \in DOMAIN seen2[2]
             totaldist == seen2[1][w] + seen2[2][w]
             better == both /\ (s.finalpath = <<>> \/ s.finaldist > totaldist)
             revpath == [i \in 1..Len(path2[2][w]) |->
                           path2[2][w][Len(path2[2][w]) + 1 - i]]
             s2 == [s EXCEPT
                      !.seen = seen2,
                      !.paths = path2,
                      !.fringe[dir] = @ \cup { <<vwLength, s.c, w>> },
                      !.c = @ + 1,
                      !.finaldist = IF better THEN totaldist ELSE @,
                      !.finalpath = IF better THEN path2[1][w] \o Tail(revpath) ELSE @]
         IN relax_neighbours(G, s2, v, Tail(ws), dir)
       ELSE relax_neighbours(G, s, v, Tail(ws), dir)

\* The while loop of bidirectional_dijkstra.
RECURSIVE dijkstra_loop(_, _)
dijkstra_loop(G, s) ==
  IF s.status # "run" THEN s
  ELSE IF s.fringe[1] = {} \/ s.fringe[2] = {}
  THEN [s EXCEPT !.status = "NetworkXNoPath"]
  ELSE
    LET dir == 3 - s.dir
        top == HeapMin(s.fringe[dir])
        v == top[3]
        popped == [s EXCEPT !.dir = dir, !.fringe[dir] = @ \ {top}]
    IN IF v \in DOMAIN s.dists[dir]
       THEN dijkstra_loop(G, popped)
       ELSE
         LET settled == [popped EXCEPT !.dists[dir] = DictSet(@, v, top[1])]
         IN IF v \in DOMAIN s.dists[3 - dir]
            THEN [settled EXCEPT !.status = "ok"]
            ELSE dijkstra_loop(G,
                   relax_neighbours(G, settled, v,
                     IF dir = 1 THEN Successors(G, v) ELSE Predecessors(G, v), dir))

bidirectional_dijkstra(G, source, target) ==
  LET init == [status |-> "run",
               dists |-> << EmptyDict, EmptyDict >>,
               paths |-> << (source :> << source >>), (target :> << target >>) >>,
               fringe |-> << { <<0, 0, source>> }, { <<0, 1, target>> } >>,
               seen |-> << (source :> 0), (target :> 0) >>,
               c |-> 2,
               finaldist |-> 0,
               finalpath |-> <<>>,
               dir |-> 2]
      end == dijkstra_loop(G, init)
  IN [status |-> end.status, path |-> IF end.status = "ok" THEN end.finalpath ELSE <<>>]

\* Variant of the search that answers an empty path instead of raising
\* NetworkXNoPath.
shortest_path_swallow(G, source, target) ==
  IF source \notin NodeIds(G) \/ target \notin NodeIds(G)
  THEN [status |-> "NodeNotFound", path |-> <<>>]
  ELSE IF source = target
  THEN [status |-> "ok", path |-> << source >>]
  ELSE [status |-> "ok", path |-> bidirectional_dijkstra(G, source, target).path]

\* nx.shortest_path with source, target and weight given.
shortest_path(G, source, target) ==
  IF source \notin NodeIds(G) \/ target \notin NodeIds(G)
  THEN [status |-> "NodeNotFound", path |-> <<>>]
  ELSE IF source = target
  THEN [status |-> "ok", path |-> << source >>]
  ELSE bidirectional_dijkstra(G, source, target)

\* ------------------------------------------------------- RoutingService
LatLon(lat, lon) == [lat |-> lat, lon |-> lon]

\* Variant of the stitching that keeps the first point of an edge geometry
\* on every hop.
segment_coords_keepfirst(G, path, i) ==
  LET u == path[i]
      v == path[i + 1]
      edge_dict == get_edge_data(G, u, v)
      geom == IF edge_dict # <<>> THEN edge_dict[1].geometry ELSE <<>>
      node_u == NodeById(G, u)
      node_v == NodeById(G, v)
  IN IF geom # <<>>
     THEN [j \in 1..Len(geom) |-> LatLon(Some(geom[j].y), Some(geom[j].x))]
     ELSE IF i = 1
          THEN << LatLon(node_u.y, node_u.x), LatLon(node_v.y, node_v.x) >>
          ELSE << LatLon(node_v.y, node_v.x) >>

\* Variant of the stitching that drops the first point of every segment,
\* the very first one included.
segment_coords_dropfirst(G, path, i) ==
  LET u == path[i]
      v == path[i + 1]
      edge_dict == get_edge_data(G, u, v)
      geom == IF edge_dict # <<>> THEN edge_dict[1].geometry ELSE <<>>
      node_v == NodeById(G, v)
  IN IF geom # <<>>
     THEN Tail([j \in 1..Len(geom) |-> LatLon(Some(geom[j].y), Some(geom[j].x))])
     ELSE << LatLon(node_v.y, node_v.x) >>

\* the points the hop i of the path adds to the polyline
segment_coords(G, path, i) ==
  LET u == path[i]
      v == path[i + 1]
      edge_dict == get_edge_data(G, u, v)
      \* MultiDiGraph: the first edge key
      geom == IF edge_dict # <<>> THEN edge_dict[1].geometry ELSE <<>>
      node_u == NodeById(G, u)
      node_v == NodeById(G, v)
  IN IF geom # <<>>
     THEN LET pts == [j \in 1..Len(geom) |-> LatLon(Some(geom[j].y), Some(geom[j].x))]
          IN IF i > 1 THEN Tail(pts) ELSE pts
     ELSE IF i = 1
          THEN << LatLon(node_u.y, node_u.x), LatLon(node_v.y, node_v.x) >>
          ELSE << LatLon(node_v.y, node_v.x) >>

RECURSIVE coords_loop(_, _, _, _)
coords_loop(G, path, i, coords) ==
  IF i > Len(path) - 1 THEN coords
  ELSE coords_loop(G, path, i + 1, coords \o segment_coords(G, path, i))

\* Variant of _build_coordinates_from_path without the single-node case.
build_coordinates_from_path_nosingle(G, path) ==
  IF path = <<>> THEN <<>>
  ELSE coords_loop(G, path, 1, <<>>)

\* _build_coordinates_from_path
build_coordinates_from_path(G, path) ==
  IF path = <<>> THEN <<>>
  ELSE IF Len(path) = 1
  THEN LET nd == NodeById(G, path[1]) IN << LatLon(nd.y, nd.x) >>
  ELSE coords_loop(G, path, 1, <<>>)

\* dist / speed_mps with speed_mps = DEFAULT_SPEED_KMH * 1000 / 3600, in
\* centiseconds
seconds_at_speed(dist) == (dist * 3600) \div (DEFAULT_SPEED_KMH * 10)

RouteStep(u, v, dist, dur) ==
  [from_node |-> u, to_node |-> v, distance_m |-> dist, duration_s |-> dur]

RECURSIVE steps_loop(_, _, _, _)
steps_loop(G, path, i, acc) ==
  IF i > Len(path) - 1 THEN acc
  ELSE
    LET u == path[i]
        v == path[i + 1]
        edge_dict == get_edge_data(G, u, v)
    IN IF edge_dict = <<>> THEN steps_loop(G, path, i + 1, acc)
       ELSE LET w == edge_dict[1].weight   \* the first edge key
            IN IF ~w.has THEN steps_loop(G, path, i + 1, acc)
               ELSE steps_loop(G, path, i + 1,
                      [steps |-> Append(acc.steps,
                                        RouteStep(u, v, w.val, seconds_at_speed(w.val))),
                       total_distance |-> acc.total_distance + w.val])

\* _build_steps_from_path: (steps, total_distance)
build_steps_from_path(G, path) ==
  IF Len(path) < 2 THEN [steps |-> <<>>, total_distance |-> 0]
  ELSE steps_loop(G, path, 1, [steps |-> <<>>, total_distance |-> 0])

\* _compute_duration_from_distance, in centiseconds
compute_duration_from_distance(distance_m) ==
  IF distance_m <= 0 THEN 0 ELSE seconds_at_speed(distance_m)

CoverageWarning == "Route distance exceeds 2 x max graph radius"

\* Variant of the response without the warning (the field keeps its default).
route_warnings_omitted(distance_m) == <<>>

\* lines 135-142 of compute_route
route_warnings(distance_m) ==
  IF distance_m > 2 * MAX_GRAPH_RADIUS_M THEN << CoverageWarning >> ELSE <<>>

\* lines 104-152 of compute_route: the response built from G and the path
RouteResponse(G, path) ==
  LET coords == build_coordinates_from_path(G, path)
      built == build_steps_from_path(G, path)
      distance_m == built.total_distance
      duration_s == compute_duration_from_distance(distance_m)
  IN [distance_m |-> distance_m,
      duration_s |-> duration_s,
      geometry |-> [type |-> "LineString", coordinates |-> coords],
      summary |-> [distance_m |-> distance_m, duration_s |-> duration_s,
                   geometry |-> coords],
      steps |-> built.steps,
      warnings |-> route_warnings(distance_m)]

NoResponse ==
  [distance_m |-> 0, duration_s |-> 0,
   geometry |-> [type |-> "None", coordinates |-> <<>>],
   summary |-> [distance_m |-> 0, duration_s |-> 0, geometry |-> <<>>],
   steps |-> <<>>, warnings |-> <<>>]

\* ======================================================== state machine
VARIABLES
  pytest,            \* "PYTEST_CURRENT_TEST" in os.environ
  graph, bbox,       \* GraphManager.graph, GraphManager.bbox (shared)
  running,           \* the handlers the event loop is executing
  pc,                \* position of each request
  origin, destination,        \* the request of a running handler
  builtG,            \* G of _build_graph_for_points
  locG,              \* G of compute_route (line 73)
  origin_node, destination_node,
  path,
  nextGen,           \* graph instances created so far
  hist,              \* per running handler: what it saw and did (history)
  last               \* the latest call that ended: its locals, history and
                     \* what it handed to the caller

vars == << pytest, graph, bbox, running, pc, origin, destination, builtG, locG,
           origin_node, destination_node, path, nextGen, hist, last >>

NoCoordinate == Coordinate(0, 0)

\* startGraph, startBbox: the cache when the handler started; rebuild: the
\* coverage check sent it to the rebuild; fetches, searches: calls of the
\* map source and of the path search; logged: the warning of lines 138-146
\* was logged; fetched: centre and radius asked of the map source.
NoFetch == [center_lat |-> 0, center_lon |-> 0, radius_m |-> 0]

NoHist ==
  [startGraph |-> NoGraph, startBbox |-> NoBbox, rebuild |-> FALSE,
   fetches |-> 0, searches |-> 0, logged |-> FALSE, fetched |-> NoFetch]

\* The call of request r as it stands, ending with `exc` ("ok" or the name
\* of the exception that leaves compute_route) and the response `resp`.
Call(r, exc, resp) ==
  [req |-> r, origin |-> origin[r], destination |-> destination[r],
   G |-> locG[r], origin_node |-> origin_node[r],
   destination_node |-> destination_node[r], path |-> path[r],
   hist |-> hist[r], outcome |-> exc, response |-> resp]

NoCall ==
  [req |-> 0, origin |-> NoCoordinate, destination |-> NoCoordinate,
   G |-> NoGraph, origin_node |-> 0, destination_node |-> 0, path |-> <<>>,
   hist |-> NoHist, outcome |-> "", response |-> NoResponse]

Init ==
  /\ pytest \in BOOLEAN
  /\ graph = NoGraph
  /\ bbox = NoBbox
  /\ running = {}
  /\ pc = [r \in Requests |-> "idle"]
  /\ origin = [r \in Requests |-> NoCoordinate]
  /\ destination = [r \in Requests |-> NoCoordinate]
  /\ builtG = [r \in Requests |-> NoGraph]
  /\ locG = [r \in Requests |-> NoGraph]
  /\ origin_node = [r \in Requests |-> 0]
  /\ destination_node = [r \in Requests |-> 0]
  /\ path = [r \in Requests |-> <<>>]
  /\ nextGen = 0
  /\ hist = [r \in Requests |-> NoHist]
  /\ last = NoCall

\* A request reaches the server (POST /route/) and waits for the event loop.
Arrive(r) ==
  /\ pc[r] = "idle"
  /\ pc' = [pc EXCEPT ![r] = "pending"]
  /\ UNCHANGED << pytest, graph, bbox, running, origin, destination, builtG, locG,
                  origin_node, destination_node, path, nextGen, hist, last >>

\* Variant of the endpoint declared with a plain `def`: the framework runs
\* such handlers in a thread pool, any number of them at once.
handler_may_start_threadpool == TRUE

\* ----------------------------------------------------- routes_routing.py
\* compute_route is an `async def` endpoint whose body is one synchronous
\* call without any await: the event loop that serves the shared
\* routing_service runs a handler to its return (or exception) before it
\* starts the next one.
handler_may_start == running = {}

\* The event loop takes a waiting request, reads its validated body and
\* starts the handler with it (line 30).
Dispatch(r) ==
  /\ pc[r] = "pending"
  /\ handler_may_start
  /\ \E o \in ReqPoints, d \in ReqPoints :
       /\ origin' = [origin EXCEPT ![r] = o]
       /\ destination' = [destination EXCEPT ![r] = d]
  /\ running' = running \cup {r}
  /\ pc' = [pc EXCEPT ![r] = "ensure"]
  /\ hist' = [hist EXCEPT ![r].startGraph = graph, ![r].startBbox = bbox]
  /\ UNCHANGED << pytest, graph, bbox, builtG, locG,
                  origin_node, destination_node, path, nextGen, last >>

\* The handler ends, with a response or with the exception that leaves
\* compute_route (nothing in it catches one); its frame is gone.
Return(r, call) ==
  /\ pc' = [pc EXCEPT ![r] = "done"]
  /\ running' = running \ {r}
  /\ last' = call
  /\ origin' = [origin EXCEPT ![r] = NoCoordinate]
  /\ destination' = [destination EXCEPT ![r] = NoCoordinate]
  /\ builtG' = [builtG EXCEPT ![r] = NoGraph]
  /\ locG' = [locG EXCEPT ![r] = NoGraph]
  /\ origin_node' = [origin_node EXCEPT ![r] = 0]
  /\ destination_node' = [destination_node EXCEPT ![r] = 0]
  /\ path' = [path EXCEPT ![r] = <<>>]
  /\ hist' = [hist EXCEPT ![r] = NoHist]

\* ------------------------------------- GraphManager.ensure_graph_for_points
\* line 38: the decision to rebuild
must_rebuild(g, box, o, d) == IsNone(g) \/ ~bbox_contains_points(box, o, d)

EnsureGraph(r) ==
  /\ pc[r] = "ensure"
  /\ IF must_rebuild(graph, bbox, origin[r], destination[r])
     THEN /\ pc' = [pc EXCEPT ![r] = "build"]
          /\ hist' = [hist EXCEPT ![r].rebuild = TRUE]
     ELSE /\ pc' = [pc EXCEPT ![r] = "read_graph"]
          /\ UNCHANGED hist
  /\ UNCHANGED << pytest, graph, bbox, running, origin, destination, builtG, locG,
                  origin_node, destination_node, path, nextGen, last >>

\* ------------------------------------- GraphManager._build_graph_for_points
\* lines 119-122, under pytest: the dummy graph is built and installed
BuildDummy(r) ==
  /\ pc[r] = "build"
  /\ pytest
  /\ nextGen' = nextGen + 1
  /\ builtG' = [builtG EXCEPT ![r] = [build_dummy_graph_for_tests EXCEPT !.gen = nextGen + 1]]
  /\ graph' = builtG'[r]
  /\ pc' = [pc EXCEPT ![r] = "dummy_bbox"]
  /\ UNCHANGED << pytest, bbox, running, origin, destination, locG, origin_node,
                  destination_node, path, hist, last >>

\* line 124, then the return of line 129
SetDummyBbox(r) ==
  /\ pc[r] = "dummy_bbox"
  /\ bbox' = dummy_bbox(builtG[r].gen)
  /\ builtG' = [builtG EXCEPT ![r] = NoGraph]
  /\ pc' = [pc EXCEPT ![r] = "read_graph"]
  /\ UNCHANGED << pytest, graph, running, origin, destination, locG,
                  origin_node, destination_node, path, nextGen, hist, last >>

\* lines 132-146: the warning logged for a request beyond the comfort zone
logs_coverage_warning(o, d) == haversine_distance_m(o, d) > 2 * MAX_GRAPH_RADIUS_M

\* lines 148-154 and 163-168: the radius and the centre of the fetch
fetch_request(o, d) ==
  [center_lat |-> (o.lat + d.lat) \div 2,
   center_lon |-> (o.lon + d.lon) \div 2,
   radius_m |-> Min((3 * haversine_distance_m(o, d)) \div 2 + 2000, MAX_GRAPH_RADIUS_M)]

\* what a call of ox.graph_from_point leaves in the history of request r
fetch_history(r) ==
  [hist[r] EXCEPT !.fetches = @ + 1,
                  !.logged = logs_coverage_warning(origin[r], destination[r]),
                  !.fetched = fetch_request(origin[r], destination[r])]

\* lines 132-168: ox.graph_from_point delivers a road network
Fetch(r) ==
  /\ pc[r] = "build"
  /\ ~pytest
  /\ \E g \in MapGraphs :
       builtG' = [builtG EXCEPT ![r] = [g EXCEPT !.gen = nextGen + 1]]
  /\ nextGen' = nextGen + 1
  /\ hist' = [hist EXCEPT ![r] = fetch_history(r)]
  /\ pc' = [pc EXCEPT ![r] = "normalise"]
  /\ UNCHANGED << pytest, graph, bbox, running, origin, destination, locG,
                  origin_node, destination_node, path, last >>

\* Variant of the failing build that drops the cache before it fetches.
FetchFails_invalidate(r) ==
  /\ pc[r] = "build"
  /\ ~pytest
  /\ graph' = NoGraph
  /\ bbox' = NoBbox
  /\ Return(r, [Call(r, "BuildFailed", NoResponse) EXCEPT !.hist = fetch_history(r)])
  /\ UNCHANGED << pytest, nextGen >>

\* lines 163-168: ox.graph_from_point raises (the map source cannot be
\* reached, or has no roads there); the exception leaves compute_route
FetchFails(r) ==
  /\ pc[r] = "build"
  /\ ~pytest
  /\ Return(r, [Call(r, "BuildFailed", NoResponse) EXCEPT !.hist = fetch_history(r)])
  /\ UNCHANGED << pytest, graph, bbox, nextGen >>

\* line 170
Normalise(r) ==
  /\ pc[r] = "normalise"
  /\ builtG' = [builtG EXCEPT ![r] = ensure_numeric_weights(@)]
  /\ pc' = [pc EXCEPT ![r] = "set_bbox"]
  /\ UNCHANGED << pytest, graph, bbox, running, origin, destination, locG,
                  origin_node, destination_node, path, nextGen, hist, last >>

\* lines 172-181: self.bbox is assigned
SetBbox(r) ==
  /\ pc[r] = "set_bbox"
  /\ bbox' = derive_bbox(builtG[r], origin[r], destination[r], builtG[r].gen)
  /\ pc' = [pc EXCEPT ![r] = "set_graph"]
  /\ UNCHANGED << pytest, graph, running, origin, destination, builtG, locG,
                  origin_node, destination_node, path, nextGen, hist, last >>

\* line 183: self.graph is assigned, and the function returns
SetGraph(r) ==
  /\ pc[r] = "set_graph"
  /\ graph' = builtG[r]
  /\ builtG' = [builtG EXCEPT ![r] = NoGraph]
  /\ pc' = [pc EXCEPT ![r] = "read_graph"]
  /\ UNCHANGED << pytest, bbox, running, origin, destination, locG,
                  origin_node, destination_node, path, nextGen, hist, last >>

\* ------------------------------------------ RoutingService.compute_route
\* lines 73-75
ReadGraph(r) ==
  /\ pc[r] = "read_graph"
  /\ IF IsNone(graph)
     THEN /\ Return(r, Call(r, "RuntimeError", NoResponse))
     ELSE /\ locG' = [locG EXCEPT ![r] = graph]
          /\ pc' = [pc EXCEPT ![r] = "nearest_origin"]
          /\ UNCHANGED << running, origin, destination, builtG, origin_node,
                          destination_node, path, hist, last >>
  /\ UNCHANGED << pytest, graph, bbox, nextGen >>

\* find_nearest_node as compute_route calls it: on self.graph, with the
\* RuntimeError of line 50 when there is none
nearest_on_cache(coord) ==
  IF IsNone(graph) THEN [status |-> "RuntimeError", node |-> 0]
  ELSE find_nearest_node(graph, coord, pytest)

\* line 79
NearestOrigin(r) ==
  /\ pc[r] = "nearest_origin"
  /\ LET nn == nearest_on_cache(origin[r])
     IN IF nn.status = "ok"
        THEN /\ origin_node' = [origin_node EXCEPT ![r] = nn.node]
             /\ pc' = [pc EXCEPT ![r] = "nearest_destination"]
             /\ UNCHANGED << running, origin, destination, builtG, locG,
                             destination_node, path, hist, last >>
        ELSE Return(r, Call(r, nn.status, NoResponse))
  /\ UNCHANGED << pytest, graph, bbox, nextGen >>

\* line 80
NearestDestination(r) ==
  /\ pc[r] = "nearest_destination"
  /\ LET nn == nearest_on_cache(destination[r])
     IN IF nn.status = "ok"
        THEN /\ destination_node' = [destination_node EXCEPT ![r] = nn.node]
             /\ pc' = [pc EXCEPT ![r] = "shortest_path"]
             /\ UNCHANGED << running, origin, destination, builtG, locG,
                             origin_node, path, hist, last >>
        ELSE Return(r, Call(r, nn.status, NoResponse))
  /\ UNCHANGED << pytest, graph, bbox, nextGen >>

\* lines 91-96: the search on G; NetworkXNoPath and NodeNotFound leave
\* compute_route as they are
ShortestPath(r) ==
  /\ pc[r] = "shortest_path"
  /\ LET sp == shortest_path(locG[r], origin_node[r], destination_node[r])
     IN IF sp.status = "ok"
        THEN /\ path' = [path EXCEPT ![r] = sp.path]
             /\ hist' = [hist EXCEPT ![r].searches = @ + 1]
             /\ pc' = [pc EXCEPT ![r] = "build_response"]
             /\ UNCHANGED << running, origin, destination, builtG, locG,
                             origin_node, destination_node, last >>
        ELSE Return(r, [Call(r, sp.status, NoResponse) EXCEPT !.hist.searches = @ + 1])
  /\ UNCHANGED << pytest, graph, bbox, nextGen >>

\* lines 104-152
BuildResponse(r) ==
  /\ pc[r] = "build_response"
  /\ Return(r, Call(r, "ok", RouteResponse(locG[r], path[r])))
  /\ UNCHANGED << pytest, graph, bbox, nextGen >>

Next ==
  \E r \in Requests :
    \/ Arrive(r)
    \/ Dispatch(r)
    \/ EnsureGraph(r)
    \/ BuildDummy(r)
    \/ SetDummyBbox(r)
    \/ Fetch(r)
    \/ FetchFails(r)
    \/ Normalise(r)
    \/ SetBbox(r)
    \/ SetGraph(r)
    \/ ReadGraph(r)
    \/ NearestOrigin(r)
    \/ NearestDestination(r)
    \/ ShortestPath(r)
    \/ BuildResponse(r)

Spec == Init /\ [][Next]_vars

\* =============================================================== claims
\* Positions at which a handler is about to read the cache.
ReadPcs == { "ensure", "read_graph", "nearest_origin", "nearest_destination" }
\* Positions inside _build_graph_for_points.
BuildPcs == { "build", "dummy_bbox", "normalise", "set_bbox", "set_graph" }

\* The cached box is the one derived for the cached graph instance.
PairConsistent ==
  \/ IsNone(graph) /\ ~bbox.present
  \/ ~IsNone(graph) /\ bbox.present /\ bbox.gen = graph.gen

\* C1: whenever a request is about to read the cache, the cached graph and
\* the cached bounding box belong together: both absent, or the box is the
\* one derived for that very graph instance.
C1_AtomicSwap == \A r \in Requests : pc[r] \in ReadPcs => PairConsistent

\* C1 witness: a request is about to run its coverage check on a cache that
\* an earlier request installed, while the earlier one has ended.
C1_Witness ==
  \E r \in Requests, q \in Requests :
    /\ pc[r] = "ensure" /\ pc[q] = "done"
    /\ ~IsNone(graph) /\ bbox.gen = graph.gen /\ graph.gen >= 1

\* C2: at any time at most one request is inside the check-rebuild-swap
\* sequence of ensure_graph_for_points, so at most one rebuild is in
\* progress.
C2_OneRebuildAtATime ==
  Cardinality({ r \in Requests : pc[r] \in BuildPcs \cup {"ensure"} }) <= 1

\* C2 witness: one request is rebuilding the graph while another one waits
\* for the same cache.
C2_Witness ==
  \E r \in Requests, q \in Requests :
    pc[r] \in { "normalise", "set_bbox", "set_graph" } /\ pc[q] = "pending"

\* C3: a call that ends because the map-data fetch failed leaves the cached
\* graph and the cached box exactly as they were when the call began, hands
\* the failure to the caller without a response, and has tried the fetch
\* once.
C3_FailedBuildLeavesCache ==
  [][\A r \in Requests :
       (pc[r] = "build" /\ pc'[r] = "done") =>
         /\ graph' = hist[r].startGraph
         /\ bbox' = hist[r].startBbox
         /\ last'.req = r
         /\ last'.outcome = "BuildFailed"
         /\ last'.response = NoResponse
         /\ last'.hist.fetches = 1]_vars

\* C3 witness: a fetch failed for a request that found a graph cached, and
\* that graph and its box are still the cache.
C3_Witness ==
  /\ last.outcome = "BuildFailed"
  /\ ~IsNone(graph)
  /\ graph = last.hist.startGraph
  /\ bbox = last.hist.startBbox

\* south <= lat <= north and west <= lon <= east
PointInBox(box, c) ==
  /\ box.south <= c.lat /\ c.lat <= box.north
  /\ box.west <= c.lon /\ c.lon <= box.east

CoverageGap(r) ==
  \/ IsNone(graph)
  \/ ~bbox.present
  \/ ~PointInBox(bbox, origin[r])
  \/ ~PointInBox(bbox, destination[r])

\* C4: the coverage check sends a request to the rebuild exactly when no
\* graph is cached or one of its two points lies outside the cached box
\* (bounds inclusive); a request that is not sent there leaves the cached
\* graph and box unchanged, at the check and until its call ends.
C4_EnsureCoverage ==
  [][\A r \in Requests :
       /\ (pc[r] = "ensure" /\ pc'[r] # "ensure") =>
            /\ (pc'[r] = "build") <=> CoverageGap(r)
            /\ hist'[r].rebuild <=> CoverageGap(r)
            /\ pc'[r] # "build" =>
                 (pc'[r] = "read_graph" /\ graph' = graph /\ bbox' = bbox)
       /\ (pc[r] # "done" /\ pc'[r] = "done" /\ ~last'.hist.rebuild) =>
            (graph' = last'.hist.startGraph /\ bbox' = last'.hist.startBbox)]_vars

\* C4 witness: a call was served from the cache with its origin on the
\* southern and western edge of the cached box.
C4_Witness ==
  /\ last.outcome = "ok"
  /\ ~last.hist.rebuild
  /\ ~pytest
  /\ bbox.present
  /\ last.origin.lat = bbox.south /\ last.origin.lon = bbox.west
  /\ last.destination.lat = bbox.north /\ last.destination.lon = bbox.east

\* ------------------------------------------------- reference definitions
HasEdge(G, u, v) == \E i \in 1..Len(G.edges) : G.edges[i].u = u /\ G.edges[i].v = v

\* the weights the edges from u to v carry (an edge without one counts 1 in
\* the search, as networkx counts it)
CountedWeights(G, u, v) ==
  { IF G.edges[i].weight.has THEN G.edges[i].weight.val ELSE 1 :
      i \in { j \in 1..Len(G.edges) : G.edges[j].u = u /\ G.edges[j].v = v } }

LeastOf(S) == CHOOSE m \in S : \A n \in S : m <= n

\* the cost of a node sequence along existing edges, every hop at the least
\* weight of its parallel edges
RECURSIVE CountedCost(_, _)
CountedCost(G, p) ==
  IF Len(p) < 2 THEN 0
  ELSE LeastOf(CountedWeights(G, p[1], p[2])) + CountedCost(G, Tail(p))

\* every directed path without a repeated node from s to t
SimplePaths(G, s, t) ==
  { q \in UNION { [1..n -> NodeIds(G)] : n \in 1..Len(G.nodes) } :
      /\ q[1] = s /\ q[Len(q)] = t
      /\ \A i \in 1..Len(q), j \in 1..Len(q) : i # j => q[i] # q[j]
      /\ \A i \in 1..(Len(q) - 1) : HasEdge(G, q[i], q[i + 1]) }

\* (u, v, weight) of every edge, in insertion order
WeightTable(G) ==
  [i \in 1..Len(G.edges) |-> << G.edges[i].u, G.edges[i].v, G.edges[i].weight >>]

FixtureWeights ==
  << <<1, 2, Some(1000)>>, <<2, 3, Some(1500)>>, <<1, 3, Some(2600)>> >>

\* C5: the node sequence a successful call routes along starts at the
\* source node, ends at the target node, follows existing directed edges
\* and costs no more than any other directed path from source to target;
\* on the fixture 1->2 (1000), 2->3 (1500), 1->3 (2600) the route from 1 to
\* 3 is [1,2,3] with 2500 m, 225 s and exactly 2 steps.
C5_ShortestPath ==
  last.outcome = "ok" =>
    LET G == last.G
        p == last.path
    IN /\ p # <<>>
       /\ p[1] = last.origin_node
       /\ p[Len(p)] = last.destination_node
       /\ \A i \in 1..(Len(p) - 1) : HasEdge(G, p[i], p[i + 1])
       /\ \A q \in SimplePaths(G, last.origin_node, last.destination_node) :
            CountedCost(G, p) <= CountedCost(G, q)
       /\ (WeightTable(G) = FixtureWeights
           /\ last.origin_node = 1 /\ last.destination_node = 3) =>
            /\ p = << 1, 2, 3 >>
            /\ last.response.distance_m = 2500
            /\ last.response.duration_s = 22500
            /\ Len(last.response.steps) = 2

\* C5 witness: the fixture graph answered a request from node 1 to node 3.
C5_Witness ==
  /\ last.outcome = "ok"
  /\ last.G.name = "dummy"
  /\ last.path = << 1, 2, 3 >>
  /\ last.response.distance_m = 2500

\* the hop (u, v) has an edge that carries a weight
WeightedHop(G, u, v) ==
  \E i \in 1..Len(G.edges) :
    G.edges[i].u = u /\ G.edges[i].v = v /\ G.edges[i].weight.has

\* the graph without its unweighted edges
WeightedPart(G) == [G EXCEPT !.edges = SelectSeq(G.edges, LAMBDA e : e.weight.has)]

\* C6: no route uses a hop whose only edges are unweighted, and the route
\* is a cheapest path of the graph without its unweighted edges.
C6_UnweightedExcluded ==
  last.outcome = "ok" =>
    LET G == last.G
        p == last.path
    IN /\ \A i \in 1..(Len(p) - 1) : WeightedHop(G, p[i], p[i + 1])
       /\ \A q \in SimplePaths(WeightedPart(G), last.origin_node, last.destination_node) :
            CountedCost(WeightedPart(G), p) <= CountedCost(WeightedPart(G), q)

AllWeighted(G) == \A i \in 1..Len(G.edges) : G.edges[i].weight.has

\* C7: in a graph whose edges all carry a weight, parallel edges included,
\* every step reports the weight the search counted for its hop, and the
\* total distance_m of the response is the cost of the path the search
\* minimised.
C7_OneEdgePolicy ==
  (last.outcome = "ok" /\ AllWeighted(last.G)) =>
    LET G == last.G
        p == last.path
    IN /\ Len(last.response.steps) = Len(p) - 1
       /\ \A i \in 1..Len(last.response.steps) :
            last.response.steps[i].distance_m
              = LeastOf(CountedWeights(G, p[i], p[i + 1]))
       /\ last.response.distance_m = CountedCost(G, p)

\* the nodes reachable from the set S along directed edges
RECURSIVE ReachableFrom(_, _)
ReachableFrom(G, S) ==
  LET T == S \cup { G.edges[i].v : i \in { j \in 1..Len(G.edges) : G.edges[j].u \in S } }
  IN IF T = S THEN S ELSE ReachableFrom(G, T)

\* C8: a call whose target node cannot be reached from its source node ends
\* with NetworkXNoPath handed to the caller and no response, after exactly
\* one search and at most one build; and no call ends that way otherwise.
C8_NoPathFound ==
  /\ (last.outcome = "NetworkXNoPath" \/ last.hist.searches >= 1) =>
       ((last.destination_node \notin ReachableFrom(last.G, {last.origin_node}))
          <=> last.outcome = "NetworkXNoPath")
  /\ last.outcome = "NetworkXNoPath" =>
       /\ last.response = NoResponse
       /\ last.path = <<>>
       /\ last.hist.searches = 1
       /\ last.hist.fetches <= 1

\* C8 witness: a call between two nodes of a cached graph that no path
\* connects has ended.
C8_Witness ==
  /\ last.outcome = "NetworkXNoPath"
  /\ ~IsNone(last.G)
  /\ last.origin_node # last.destination_node
  /\ last.destination_node \notin ReachableFrom(last.G, {last.origin_node})

\* C9 as claimed: a route produced for an origin and destination more than
\* 2 * 15000 m apart carries a warning.
C9_WarningOnRequestedDistance ==
  (last.outcome = "ok"
   /\ haversine_distance_m(last.origin, last.destination) > 2 * 15000) =>
     last.response.warnings # <<>>

\* C9 amended: a route produced with a total distance_m of more than
\* 2 * 15000 m carries the coverage warning, a shorter one carries none,
\* whether the call rebuilt the graph or was served from the cache.
C9_WarningOnRouteDistance ==
  last.outcome = "ok" =>
    /\ last.response.distance_m > 30000 => last.response.warnings = << CoverageWarning >>
    /\ last.response.distance_m <= 30000 => last.response.warnings = <<>>

\* C9 witness: a call served from the cache returned a route of more than
\* 30000 m with the warning.
C9_Witness ==
  /\ last.outcome = "ok"
  /\ ~last.hist.rebuild
  /\ last.response.distance_m > 30000
  /\ last.response.warnings = << CoverageWarning >>

\* the weights of the first-inserted edges along the path, where they exist
RECURSIVE FirstWeights(_, _)
FirstWeights(G, p) ==
  IF Len(p) < 2 THEN <<>>
  ELSE LET first == CHOOSE i \in 1..Len(G.edges) :
                      /\ G.edges[i].u = p[1] /\ G.edges[i].v = p[2]
                      /\ \A j \in 1..(i - 1) : ~(G.edges[j].u = p[1] /\ G.edges[j].v = p[2])
       IN (IF G.edges[first].weight.has THEN << G.edges[first].weight.val >> ELSE <<>>)
            \o FirstWeights(G, Tail(p))

\* C10 as claimed: a successful call between two different nodes returns at
\* least 2 geometry points, distance_m > 0, duration_s > 0 and at least one
\* step.
C10_PositiveRoute ==
  (last.outcome = "ok" /\ last.origin_node # last.destination_node) =>
    /\ Len(last.response.summary.geometry) >= 2
    /\ last.response.summary.distance_m > 0
    /\ last.response.summary.duration_s > 0
    /\ Len(last.response.steps) >= 1

\* C10 amended: a successful call between two different nodes returns at
\* least 2 geometry points; it has one step for every hop whose
\* first-inserted edge carries a weight, distance_m is the sum of those
\* weights, and duration_s > 0 exactly when distance_m > 0.
C10_RouteShape ==
  (last.outcome = "ok" /\ last.origin_node # last.destination_node) =>
    LET ws == FirstWeights(last.G, last.path)
    IN /\ Len(last.response.summary.geometry) >= 2
       /\ Len(last.response.steps) = Len(ws)
       /\ last.response.summary.distance_m = SeqSum(ws)
       /\ last.response.summary.duration_s > 0 <=> last.response.summary.distance_m > 0
       /\ (\E i \in 1..Len(ws) : ws[i] > 0) =>
            /\ last.response.summary.distance_m > 0
            /\ last.response.summary.duration_s > 0
            /\ Len(last.response.steps) >= 1

\* C10 witness: a successful call between two different nodes with a
\* positive distance.
C10_Witness ==
  /\ last.outcome = "ok"
  /\ last.origin_node # last.destination_node
  /\ Len(last.response.summary.geometry) >= 2
  /\ last.response.summary.distance_m > 0
  /\ Len(last.response.steps) >= 1

\* the node of G with the given id, looked up by position
NodeOf(G, id) ==
  G.nodes[CHOOSE i \in 1..Len(G.nodes) : G.nodes[i].id = id]

\* C11: a call whose two points resolve to the same nearest node succeeds
\* with a geometry of exactly one coordinate, that node's, distance_m = 0,
\* duration_s = 0, no steps and no warnings.
C11_SameNode ==
  (last.hist.searches >= 1 /\ last.origin_node = last.destination_node) =>
    LET nd == NodeOf(last.G, last.origin_node)
        only == << [lat |-> nd.y, lon |-> nd.x] >>
    IN /\ last.outcome = "ok"
       /\ last.path = << last.origin_node >>
       /\ last.response.geometry.coordinates = only
       /\ last.response.summary.geometry = only
       /\ last.response.distance_m = 0
       /\ last.response.duration_s = 0
       /\ last.response.summary.distance_m = 0
       /\ last.response.summary.duration_s = 0
       /\ last.response.steps = <<>>
       /\ last.response.warnings = <<>>

\* C11 witness: two different points resolved to the same node and the call
\* returned that node's coordinate.
C11_Witness ==
  /\ last.outcome = "ok"
  /\ last.origin # last.destination
  /\ last.origin_node = last.destination_node
  /\ Len(last.response.geometry.coordinates) = 1

\* the weight the normalisation rule gives an edge with usable data: its
\* length when that is a number or a string of digits, else the
\* great-circle distance between the coordinates of its two end nodes
RuleWeight(G, e) ==
  IF e.length.k = "num" THEN e.length.v
  ELSE IF e.length.k = "str" /\ float_of_str(e.length.s).has
       THEN float_of_str(e.length.s).val
  ELSE LET a == NodeOf(G, e.u)
           b == NodeOf(G, e.v)
       IN IF a.x.has /\ a.y.has /\ b.x.has /\ b.y.has
          THEN haversine_distance_m(Coordinate(a.y.val, a.x.val),
                                    Coordinate(b.y.val, b.x.val))
          ELSE -1

\* C12: every edge of a graph that a weight-based search was run on carries
\* a numeric weight >= 0, which is its numeric (or numeric-string) length
\* or else the great-circle distance between its end nodes; and no edge of
\* the cached graph carries a negative weight.
C12_NumericWeights ==
  /\ last.hist.searches >= 1 =>
       \A i \in 1..Len(last.G.edges) :
         LET e == last.G.edges[i]
         IN /\ e.weight.has
            /\ e.weight.val >= 0
            /\ e.weight.val = RuleWeight(last.G, e)
  /\ ~IsNone(graph) =>
       \A i \in 1..Len(graph.edges) :
         graph.edges[i].weight.has => graph.edges[i].weight.val >= 0

\* the first-inserted edge of the hop (u, v)
FirstEdge(G, u, v) ==
  G.edges[CHOOSE i \in 1..Len(G.edges) :
            /\ G.edges[i].u = u /\ G.edges[i].v = v
            /\ \A j \in 1..(i - 1) : ~(G.edges[j].u = u /\ G.edges[j].v = v)]

\* the [lat, lon] vertex of a node
Vertex(G, id) == [lat |-> NodeOf(G, id).y, lon |-> NodeOf(G, id).x]

\* the whole segment of the hop (u, v): the detailed geometry of its edge
\* if it has one, else the straight segment [u, v]
HopSegment(G, u, v) ==
  LET geom == FirstEdge(G, u, v).geometry
  IN IF geom # <<>>
     THEN [j \in 1..Len(geom) |-> [lat |-> Some(geom[j].y), lon |-> Some(geom[j].x)]]
     ELSE << Vertex(G, u), Vertex(G, v) >>

\* the segments of all hops but the last joined, then the last segment
\* without its first point
RECURSIVE Stitched(_, _)
Stitched(G, p) ==
  IF Len(p) = 2 THEN HopSegment(G, p[1], p[2])
  ELSE Stitched(G, SubSeq(p, 1, Len(p) - 1))
         \o Tail(HopSegment(G, p[Len(p) - 1], p[Len(p)]))

\* C13: for a path of n >= 2 nodes the geometry is the concatenation of the
\* per-hop segments (the geometry of the hop's first-inserted edge if it
\* has one, else the straight segment [u, v]) with the first point of every
\* segment but the very first dropped: its length is 1 + the sum of
\* (segment length - 1), the vertex of every node shared by two hops
\* appears once, and when no hop has a detailed geometry it is the n node
\* vertices in path order.
C13_StitchedGeometry ==
  (last.outcome = "ok" /\ Len(last.path) >= 2) =>
    LET G == last.G
        p == last.path
        n == Len(p)
        coords == last.response.geometry.coordinates
        seglen == [i \in 1..(n - 1) |-> Len(HopSegment(G, p[i], p[i + 1])) - 1]
    IN /\ coords = Stitched(G, p)
       /\ last.response.summary.geometry = coords
       /\ Len(coords) = 1 + SeqSum(seglen)
       /\ \A k \in 2..(n - 1) :
            Cardinality({j \in 1..Len(coords) : coords[j] = Vertex(G, p[k])}) = 1
       /\ (\A i \in 1..(n - 1) : FirstEdge(G, p[i], p[i + 1]).geometry = <<>>) =>
            coords = [k \in 1..n |-> Vertex(G, p[k])]

\* C13 witness: a route of two hops whose second hop has a detailed
\* geometry, stitched onto the first with the shared vertex once.
C13_Witness ==
  /\ last.outcome = "ok"
  /\ Len(last.path) = 3
  /\ FirstEdge(last.G, last.path[2], last.path[3]).geometry # <<>>
  /\ Len(last.response.geometry.coordinates) =
       1 + Len(FirstEdge(last.G, last.path[2], last.path[3]).geometry)

\* Positions of compute_route between reading the graph (line 73) and
\* building the response from it.
PinnedPcs == { "nearest_origin", "nearest_destination", "shortest_path", "build_response" }

\* C14: from the moment a call has read the graph until it has built its
\* response, the cached graph that find_nearest_node resolves nodes on is
\* the very instance the call searches and builds geometry and steps from,
\* also while other requests are waiting for the cache; the search is
\* given only node ids of the graph it searches, and no call ends with
\* NodeNotFound.
C14_OneGraphPerCall ==
  /\ \A r \in Requests :
       /\ pc[r] \in PinnedPcs => locG[r] = graph
       /\ pc[r] = "shortest_path" =>
            /\ \E i \in 1..Len(locG[r].nodes) : locG[r].nodes[i].id = origin_node[r]
            /\ \E i \in 1..Len(locG[r].nodes) : locG[r].nodes[i].id = destination_node[r]
  /\ last.outcome # "NodeNotFound"

\* C14 witness: a call that replaced the cache has resolved both nodes and
\* is about to search, while another request is waiting.
C14_Witness ==
  \E r \in Requests, q \in Requests :
    /\ pc[r] = "shortest_path" /\ pc[q] = "pending"
    /\ hist[r].rebuild
    /\ locG[r] = graph /\ graph.gen >= 1
    /\ origin_node[r] \in NodeIds(graph) /\ destination_node[r] \in NodeIds(graph)

\* C15: when a call has completed a rebuild, the newly cached box contains
\* its origin and its destination, so the next request, if it names the
\* same two points, passes the coverage check without a rebuild.
C15_RebuildCoversRequest ==
  \A r \in Requests :
    /\ (pc[r] = "read_graph" /\ hist[r].rebuild) =>
         /\ bbox.present
         /\ PointInBox(bbox, origin[r])
         /\ PointInBox(bbox, destination[r])
    /\ ( /\ pc[r] = "ensure"
         /\ last.hist.rebuild /\ last.outcome # "BuildFailed"
         /\ origin[r] = last.origin /\ destination[r] = last.destination ) =>
         ~CoverageGap(r)
====
